---- MODULE Spec2Model ----
(***************************************************************************)
(* Model of the desktop shell's command layer                              *)
(* (apps/desktop/src-tauri/src/commands): the four HTTP proxy commands of  *)
(* api.rs, the ApiResponse envelope of mod.rs and the window commands of   *)
(* native.rs.                                                              *)
(*                                                                         *)
(* A proxy command is an async fn with two suspension points,              *)
(* `send().await` and `response.json().await`.  Each invocation is a slot  *)
(* of `inv` whose pc is                                                    *)
(*   "idle"  no invocation in this slot                                    *)
(*   "send"  suspended at send().await, the request is in flight           *)
(*   "json"  suspended at response.json().await, status line received      *)
(*   "done"  the handler has returned its Result                           *)
(***************************************************************************)
EXTENDS Integers, Sequences, FiniteSets, TLC

VARIABLES inv, win, winRet

vars == <<inv, win, winRet>>

(***************************************************************************)
(* Bounds                                                                  *)
(***************************************************************************)
NumInv == 2          \* concurrent invocation slots
MaxItems == 2        \* longest backend array tried
MaxLimit == 100      \* largest `limit` argument tried

Invs == 1..NumInv

(***************************************************************************)
(* Option<T>                                                               *)
(***************************************************************************)
None == [some |-> FALSE]
Some(x) == [some |-> TRUE, v |-> x]
IsSome(o) == o.some

(***************************************************************************)
(* mod.rs: struct ApiResponse<T> { success, data, error }                  *)
(***************************************************************************)
ApiResponse(success, data, error) ==
    [success |-> success, data |-> data, error |-> error]

(***************************************************************************)
(* Result<ApiResponse<T>, String>                                          *)
(***************************************************************************)
Ok(env) == [tag |-> "Ok", env |-> env]
Err(msg) == [tag |-> "Err", msg |-> msg]
NoRet == [tag |-> "none"]

(***************************************************************************)
(* JSON values as the backend can send them.  JBad is a body that is not   *)
(* JSON text at all (empty body, HTML error page, truncated text).         *)
(***************************************************************************)
JStr(s) == [t |-> "str", s |-> s]
JNum(n) == [t |-> "num", n |-> n]
JNull == [t |-> "null"]
JArr(a) == [t |-> "arr", a |-> a]
JObj(o) == [t |-> "obj", o |-> o]
JBad == [t |-> "bad"]

(***************************************************************************)
(* Decoding results: Result<T, serde_json::Error>                          *)
(***************************************************************************)
DecOk(v) == [ok |-> TRUE, v |-> v]
DecErr(m) == [ok |-> FALSE, m |-> m]

\* a required String field
ReqString(o, f) ==
    IF f \in DOMAIN o /\ o[f].t = "str" THEN DecOk(o[f].s)
    ELSE DecErr("error decoding response body")

\* an Option<String> field: a missing field and null both give None
OptString(o, f) ==
    IF f \notin DOMAIN o THEN DecOk(None)
    ELSE IF o[f].t = "null" THEN DecOk(None)
    ELSE IF o[f].t = "str" THEN DecOk(Some(o[f].s))
    ELSE DecErr("error decoding response body")

\* an f32 field
ReqF32(o, f) ==
    IF f \in DOMAIN o /\ o[f].t = "num" THEN DecOk(o[f].n)
    ELSE DecErr("error decoding response body")

\* a Vec<String> field
ReqVecString(o, f) ==
    IF /\ f \in DOMAIN o
       /\ o[f].t = "arr"
       /\ \A k \in 1..Len(o[f].a) : o[f].a[k].t = "str"
    THEN DecOk([k \in 1..Len(o[f].a) |-> o[f].a[k].s])
    ELSE DecErr("error decoding response body")

(***************************************************************************)
(* A derived Deserialize for a struct accepts a JSON object (unknown       *)
(* fields ignored) or a JSON array holding exactly the fields in           *)
(* declaration order.  StructFields gives the fields to decode from.       *)
(***************************************************************************)
StructFields(j, names) ==
    IF j.t = "obj" THEN DecOk(j.o)
    ELSE IF j.t = "arr" /\ Len(j.a) = Len(names)
    THEN DecOk([f \in {names[k] : k \in 1..Len(names)} |->
                   j.a[CHOOSE k \in 1..Len(names) : names[k] = f]])
    ELSE DecErr("error decoding response body")

\* api.rs: struct ChatResponse { message: String, citations: Vec<String> }
ChatResponseLenient(j) ==
    LET fs == StructFields(j, <<"message", "citations">>) IN
    IF ~fs.ok THEN fs
    ELSE LET m == ReqString(fs.v, "message")
             c == IF "citations" \in DOMAIN fs.v
                  THEN ReqVecString(fs.v, "citations") ELSE DecOk(<<>>) IN
         IF m.ok /\ c.ok THEN DecOk([message |-> m.v, citations |-> c.v])
         ELSE DecErr("error decoding response body")

ChatResponse(j) ==
    LET fs == StructFields(j, <<"message", "citations">>) IN
    IF ~fs.ok THEN fs
    ELSE LET m == ReqString(fs.v, "message")
             c == ReqVecString(fs.v, "citations") IN
         IF m.ok /\ c.ok THEN DecOk([message |-> m.v, citations |-> c.v])
         ELSE DecErr("error decoding response body")

\* api.rs: struct LiteratureResult
LiteratureResult(j) ==
    LET fs == StructFields(j, <<"title", "abstract_text", "pmid", "doi",
                                "relevance_score">>) IN
    IF ~fs.ok THEN fs
    ELSE LET t == ReqString(fs.v, "title")
             a == ReqString(fs.v, "abstract_text")
             p == OptString(fs.v, "pmid")
             d == OptString(fs.v, "doi")
             r == ReqF32(fs.v, "relevance_score") IN
         IF t.ok /\ a.ok /\ p.ok /\ d.ok /\ r.ok
         THEN DecOk([title |-> t.v, abstract_text |-> a.v, pmid |-> p.v,
                     doi |-> d.v, relevance_score |-> r.v])
         ELSE DecErr("error decoding response body")

\* api.rs: struct VoeAlert
VoeAlert(j) ==
    LET fs == StructFields(j, <<"id", "patient_id", "risk_level", "message",
                                "timestamp">>) IN
    IF ~fs.ok THEN fs
    ELSE LET i == ReqString(fs.v, "id")
             p == ReqString(fs.v, "patient_id")
             r == ReqString(fs.v, "risk_level")
             m == ReqString(fs.v, "message")
             t == ReqString(fs.v, "timestamp") IN
         IF i.ok /\ p.ok /\ r.ok /\ m.ok /\ t.ok
         THEN DecOk([id |-> i.v, patient_id |-> p.v, risk_level |-> r.v,
                     message |-> m.v, timestamp |-> t.v])
         ELSE DecErr("error decoding response body")

(***************************************************************************)
(* Vec<T>: a JSON array whose every element decodes as T; the elements     *)
(* are pushed in the order they are read.                                  *)
(***************************************************************************)
VecLiteratureResultReversed(j) ==
    IF j.t = "arr" /\ \A k \in 1..Len(j.a) : LiteratureResult(j.a[k]).ok
    THEN DecOk([k \in 1..Len(j.a) |->
                   LiteratureResult(j.a[Len(j.a) + 1 - k]).v])
    ELSE DecErr("error decoding response body")

VecLiteratureResult(j) ==
    IF j.t = "arr" /\ \A k \in 1..Len(j.a) : LiteratureResult(j.a[k]).ok
    THEN DecOk([k \in 1..Len(j.a) |-> LiteratureResult(j.a[k]).v])
    ELSE DecErr("error decoding response body")

VecVoeAlert(j) ==
    IF j.t = "arr" /\ \A k \in 1..Len(j.a) : VoeAlert(j.a[k]).ok
    THEN DecOk([k \in 1..Len(j.a) |-> VoeAlert(j.a[k]).v])
    ELSE DecErr("error decoding response body")

\* serde_json::Value: any JSON text decodes, to itself
JsonValue(j) ==
    IF j.t = "bad" THEN DecErr("error decoding response body") ELSE DecOk(j)

(***************************************************************************)
(* response.json::<T>() with the T each command asks for                   *)
(***************************************************************************)
Commands == {"fetch_api_data", "send_chat_message", "search_literature",
             "get_voe_alerts"}

json(cmd, body) ==
    IF body.t = "bad" THEN DecErr("error decoding response body")
    ELSE CASE cmd = "fetch_api_data" -> JsonValue(body)
           [] cmd = "send_chat_message" -> ChatResponse(body)
           [] cmd = "search_literature" -> VecLiteratureResult(body)
           [] cmd = "get_voe_alerts" -> VecVoeAlert(body)

(***************************************************************************)
(* Display of a u32: its decimal digits                                    *)
(***************************************************************************)
Digit(d) ==
    CASE d = 0 -> "0" [] d = 1 -> "1" [] d = 2 -> "2" [] d = 3 -> "3"
      [] d = 4 -> "4" [] d = 5 -> "5" [] d = 6 -> "6" [] d = 7 -> "7"
      [] d = 8 -> "8" [] d = 9 -> "9"

RECURSIVE ToDecimal(_)
ToDecimal(n) ==
    IF n < 10 THEN Digit(n) ELSE ToDecimal(n \div 10) \o Digit(n % 10)

(***************************************************************************)
(* Requests.  The url is the string handed to client.get / client.post.    *)
(***************************************************************************)
Request(method, url, body) == [method |-> method, url |-> url, body |-> body]
NoReq == Request("", "", None)

\* what a percent-encoding of the interpolated text would give
RECURSIVE PercentEncode(_)
PercentEncode(s) ==
    IF Len(s) = 0 THEN s
    ELSE (IF SubSeq(s, 1, 1) = " " THEN "%20" ELSE SubSeq(s, 1, 1))
         \o PercentEncode(SubSeq(s, 2, Len(s)))

\* api.rs fetch_api_data: format!("http://localhost:3001/api/{}", endpoint)
fetch_api_data_request(endpoint) ==
    Request("GET", "http://localhost:3001/api/" \o endpoint, None)

\* api.rs send_chat_message: the json! body posted to /api/chat
send_chat_message_request(content, role, mode, tone) ==
    Request("POST", "http://localhost:3001/api/chat",
            Some([message |-> content, role |-> role,
                  mode |-> mode, tone |-> tone]))

\* api.rs search_literature: format!(".../search?q={}&limit={}", query, limit)
search_literature_request_encoded(query, limit) ==
    Request("GET",
            "http://localhost:3001/api/literature/search?q="
                \o PercentEncode(query) \o "&limit=" \o ToDecimal(limit),
            None)

search_literature_request(query, limit) ==
    Request("GET",
            "http://localhost:3001/api/literature/search?q="
                \o query \o "&limit=" \o ToDecimal(limit),
            None)

\* api.rs get_voe_alerts
get_voe_alerts_request ==
    Request("GET", "http://localhost:3001/api/voe/alerts", None)

(***************************************************************************)
(* The transport.  send() resolves to Err(e) or to Ok(response) once the   *)
(* status line and headers are in; reading the body can then fail too.     *)
(***************************************************************************)
TransportErrors == {"connect", "dns"}
Statuses == {200, 500}

\* e.to_string() of a reqwest::Error
to_string(e) ==
    CASE e = "connect" -> "error sending request: connection refused"
      [] e = "dns" -> "error sending request: dns error"
      [] e = "body" -> "error reading response body"

NoResp == [kind |-> "none"]
RespErr(e) == [kind |-> "err", e |-> e]
RespOk(status) == [kind |-> "ok", status |-> status]

NoBody == [kind |-> "none"]
BodyErr == [kind |-> "err", e |-> "body"]
BodyOk(j) == [kind |-> "ok", json |-> j]

(***************************************************************************)
(* The match arms of the four commands (they are the same in all four)     *)
(***************************************************************************)
\* Err(e) => Ok(ApiResponse { success: false, data: None, error: Some(..) })
OnSendErrSilent(e) == Ok(ApiResponse(FALSE, None, Some("")))

OnSendErrRaised(e) == Err(to_string(e))

OnSendErr(e) == Ok(ApiResponse(FALSE, None, Some(to_string(e))))

\* Ok(response) => match response.json::<T>().await { Ok(data) .. Err(e) .. }
OnResponseStatusChecked(cmd, response, body) ==
    IF response.status >= 400
    THEN Ok(ApiResponse(FALSE, None, Some("HTTP status error")))
    ELSE IF body.kind = "err"
    THEN Ok(ApiResponse(FALSE, None, Some(to_string(body.e))))
    ELSE LET d == json(cmd, body.json) IN
         IF d.ok THEN Ok(ApiResponse(TRUE, Some(d.v), None))
         ELSE Ok(ApiResponse(FALSE, None, Some(d.m)))

OnResponseErrorKept(cmd, response, body) ==
    IF body.kind = "err"
    THEN Ok(ApiResponse(FALSE, None, Some(to_string(body.e))))
    ELSE LET d == json(cmd, body.json) IN
         IF d.ok THEN Ok(ApiResponse(TRUE, Some(d.v), Some("")))
         ELSE Ok(ApiResponse(FALSE, None, Some(d.m)))

OnResponse(cmd, response, body) ==
    IF body.kind = "err"
    THEN Ok(ApiResponse(FALSE, None, Some(to_string(body.e))))
    ELSE LET d == json(cmd, body.json) IN
         IF d.ok THEN Ok(ApiResponse(TRUE, Some(d.v), None))
         ELSE Ok(ApiResponse(FALSE, None, Some(d.m)))

(***************************************************************************)
(* Inputs the UI passes and bodies the backend sends                       *)
(***************************************************************************)
Endpoints == {"patients", "voe/../chat?x=1 2#top"}
Queries == {"sickle cell", "a&limit=0"}
Limits == {10, MaxLimit}
Contents == {"hello"}
Roles == {"user"}
Modes == {"research"}
Tones == {"formal"}

LitA == JObj([title |-> JStr("A"), abstract_text |-> JStr("a"),
              pmid |-> JStr("1"), doi |-> JNull,
              relevance_score |-> JNum(9), journal |-> JStr("x")])
LitB == JObj([title |-> JStr("B"), abstract_text |-> JStr("b"),
              relevance_score |-> JNum(5)])
LitNoTitle == JObj([abstract_text |-> JStr("c"), relevance_score |-> JNum(1)])

AlertA == JObj([id |-> JStr("1"), patient_id |-> JStr("p1"),
                risk_level |-> JStr("high"), message |-> JStr("m"),
                timestamp |-> JStr("t1")])
AlertB == JObj([id |-> JStr("2"), patient_id |-> JStr("p2"),
                risk_level |-> JStr("low"), message |-> JStr("n"),
                timestamp |-> JStr("t2")])
AlertNoId == JObj([patient_id |-> JStr("p3"), risk_level |-> JStr("low"),
                   message |-> JStr("o"), timestamp |-> JStr("t3")])

ChatFull == JObj([message |-> JStr("answer"),
                  citations |-> JArr(<<JStr("c1"), JStr("c2")>>),
                  model |-> JStr("x")])
ChatNoCitations == JObj([message |-> JStr("answer")])
ChatAsArray == JArr(<<JStr("answer"), JArr(<<JStr("c1")>>)>>)

\* the array of n elements that alternates x, y, x, ...
Alternating(x, y, n) == JArr([k \in 1..n |-> IF k % 2 = 1 THEN x ELSE y])

\* the backend's result sets of at most n elements, in either order
ArraysUpTo(x, y, n) ==
    {Alternating(x, y, k) : k \in 0..n} \cup {Alternating(y, x, k) : k \in 0..n}

Bodies(cmd) ==
    CASE cmd = "fetch_api_data" ->
            {JBad, JNull, JObj([status |-> JStr("ok")])}
      [] cmd = "send_chat_message" ->
            {JBad, ChatFull, ChatNoCitations, ChatAsArray}
      [] cmd = "search_literature" ->
            ArraysUpTo(LitA, LitB, MaxItems)
                \cup {JBad, JArr(<<LitA, LitNoTitle>>)}
      [] cmd = "get_voe_alerts" ->
            {Alternating(AlertA, AlertB, k) : k \in 0..MaxItems}
                \cup {JBad, JArr(<<AlertNoId>>)}

(***************************************************************************)
(* One invocation.  args and req describe the request in flight: no line   *)
(* after send() reads them, so the slot drops them when send() resolves.   *)
(* sent counts the calls of send() this invocation has made.               *)
(***************************************************************************)
Args(endpoint, query, limit, content, role, mode, tone) ==
    [endpoint |-> endpoint, query |-> query, limit |-> limit,
     content |-> content, role |-> role, mode |-> mode, tone |-> tone]
NoArgs == Args("", "", 0, "", "", "", "")

Idle == [pc |-> "idle", cmd |-> "", args |-> NoArgs, req |-> NoReq,
         sent |-> 0, resp |-> NoResp, body |-> NoBody, ret |-> NoRet]

\* let client = reqwest::Client::new(); ... client.get(&url).send().await
Issue(cmd, args, req) ==
    [pc |-> "send", cmd |-> cmd, args |-> args, req |-> req,
     sent |-> 1, resp |-> NoResp, body |-> NoBody, ret |-> NoRet]

\* the Err(e) arm of the outer match: the handler returns
AfterSendErrRetry(slot, e) == [slot EXCEPT !.sent = @ + 1, !.pc = "send"]

AfterSendErr(slot, e) ==
    [slot EXCEPT !.pc = "done", !.args = NoArgs, !.req = NoReq,
                 !.resp = RespErr(e), !.ret = OnSendErr(e)]

\* the Ok(response) arm: the handler goes on to response.json().await
AfterSendOk(slot, status) ==
    [slot EXCEPT !.pc = "json", !.args = NoArgs, !.req = NoReq,
                 !.resp = RespOk(status)]

\* the inner match: the handler returns
AfterJson(slot, body) ==
    [slot EXCEPT !.pc = "done", !.body = body,
                 !.ret = OnResponse(slot.cmd, slot.resp, body)]

(***************************************************************************)
(* An async command is a task of its own: a suspended invocation is        *)
(* resumed as soon as its own future resolves.                             *)
(***************************************************************************)
CanResumeSerialized(i) == \A j \in Invs \ {i} : inv[j].pc \notin {"send", "json"}

CanResume(i) == TRUE

Init ==
    /\ inv = [i \in Invs |-> Idle]
    /\ win = [fullscreen |-> FALSE, maximized |-> FALSE,
              minimized |-> FALSE, closed |-> FALSE]
    /\ winRet = [cmd |-> "", outcome |-> "", ret |-> NoRet]

fetch_api_data(i) ==
    /\ inv[i].pc = "idle"
    /\ \E endpoint \in Endpoints :
          inv' = [inv EXCEPT ![i] =
                     Issue("fetch_api_data",
                           Args(endpoint, "", 0, "", "", "", ""),
                           fetch_api_data_request(endpoint))]
    /\ UNCHANGED <<win, winRet>>

send_chat_message(i) ==
    /\ inv[i].pc = "idle"
    /\ \E content \in Contents, role \in Roles, mode \in Modes, tone \in Tones :
          inv' = [inv EXCEPT ![i] =
                     Issue("send_chat_message",
                           Args("", "", 0, content, role, mode, tone),
                           send_chat_message_request(content, role, mode, tone))]
    /\ UNCHANGED <<win, winRet>>

search_literature(i) ==
    /\ inv[i].pc = "idle"
    /\ \E query \in Queries, limit \in Limits :
          inv' = [inv EXCEPT ![i] =
                     Issue("search_literature",
                           Args("", query, limit, "", "", "", ""),
                           search_literature_request(query, limit))]
    /\ UNCHANGED <<win, winRet>>

get_voe_alerts(i) ==
    /\ inv[i].pc = "idle"
    /\ inv' = [inv EXCEPT ![i] =
                  Issue("get_voe_alerts", NoArgs, get_voe_alerts_request)]
    /\ UNCHANGED <<win, winRet>>

\* send().await resolves to Err(e)
SendErr(i) ==
    /\ inv[i].pc = "send"
    /\ CanResume(i)
    /\ \E e \in TransportErrors :
          inv' = [inv EXCEPT ![i] = AfterSendErr(inv[i], e)]
    /\ UNCHANGED <<win, winRet>>

\* send().await resolves to Ok(response)
SendOk(i) ==
    /\ inv[i].pc = "send"
    /\ CanResume(i)
    /\ \E status \in Statuses :
          inv' = [inv EXCEPT ![i] = AfterSendOk(inv[i], status)]
    /\ UNCHANGED <<win, winRet>>

\* response.json().await resolves: the body could not be read
JsonReadErr(i) ==
    /\ inv[i].pc = "json"
    /\ CanResume(i)
    /\ inv' = [inv EXCEPT ![i] = AfterJson(inv[i], BodyErr)]
    /\ UNCHANGED <<win, winRet>>

\* response.json().await resolves: the body was read and is decoded
JsonRead(i) ==
    /\ inv[i].pc = "json"
    /\ CanResume(i)
    /\ \E j \in Bodies(inv[i].cmd) :
          inv' = [inv EXCEPT ![i] = AfterJson(inv[i], BodyOk(j))]
    /\ UNCHANGED <<win, winRet>>

\* the runtime relays the returned value to the UI; the slot is free again
Deliver(i) ==
    /\ inv[i].pc = "done"
    /\ inv' = [inv EXCEPT ![i] = Idle]
    /\ UNCHANGED <<win, winRet>>

Resolve(i) == SendErr(i) \/ SendOk(i) \/ JsonReadErr(i) \/ JsonRead(i)

Next ==
    \E i \in Invs :
        \/ fetch_api_data(i)
        \/ send_chat_message(i)
        \/ search_literature(i)
        \/ get_voe_alerts(i)
        \/ SendErr(i)
        \/ SendOk(i)
        \/ JsonReadErr(i)
        \/ JsonRead(i)
        \/ Deliver(i)

Spec == Init /\ [][Next]_vars

(***************************************************************************)
(* native.rs: the window commands.  They return Result<(), String>.  Each  *)
(* native call on the window handle either succeeds or fails with a        *)
(* platform error.  main.rs does not register them with the invoke         *)
(* handler, so they are a machine of their own.                            *)
(***************************************************************************)
PlatformErrors == {"gone", "unsupported"}
NativeOutcomes == {"ok"} \cup PlatformErrors

\* e.to_string() of a tauri::Error
platform_to_string(e) ==
    CASE e = "gone" -> "window not found"
      [] e = "unsupported" -> "not supported on this platform"

OkUnit == [tag |-> "Ok"]

\* .map_err(|e| e.to_string()) on the native call's result
map_err_swallowed(outcome) == OkUnit

map_err(outcome) ==
    IF outcome = "ok" THEN OkUnit ELSE Err(platform_to_string(outcome))

WinRet(cmd, outcome) ==
    [cmd |-> cmd, outcome |-> outcome, ret |-> map_err(outcome)]

toggle_fullscreen ==
    \E q \in NativeOutcomes, o \in NativeOutcomes :
        IF q # "ok"
        THEN \* Err(e) => Err(e.to_string())
             /\ winRet' = WinRet("toggle_fullscreen", q)
             /\ UNCHANGED <<inv, win>>
        ELSE /\ winRet' = WinRet("toggle_fullscreen", o)
             /\ win' = IF o = "ok"
                       THEN [win EXCEPT !.fullscreen = ~win.fullscreen]
                       ELSE win
             /\ UNCHANGED inv

minimize_window ==
    \E o \in NativeOutcomes :
        /\ winRet' = WinRet("minimize_window", o)
        /\ win' = IF o = "ok" THEN [win EXCEPT !.minimized = TRUE] ELSE win
        /\ UNCHANGED inv

maximize_window ==
    \E q \in NativeOutcomes, o \in NativeOutcomes :
        IF q # "ok"
        THEN /\ winRet' = WinRet("maximize_window", q)
             /\ UNCHANGED <<inv, win>>
        ELSE /\ winRet' = WinRet("maximize_window", o)
             /\ win' = IF o = "ok"
                       THEN [win EXCEPT !.maximized = ~win.maximized]
                       ELSE win
             /\ UNCHANGED inv

close_window ==
    \E o \in NativeOutcomes :
        /\ winRet' = WinRet("close_window", o)
        /\ win' = IF o = "ok" THEN [win EXCEPT !.closed = TRUE] ELSE win
        /\ UNCHANGED inv

WinNext ==
    \/ toggle_fullscreen
    \/ minimize_window
    \/ maximize_window
    \/ close_window

WinSpec == Init /\ [][WinNext]_vars

(***************************************************************************)
(* Properties                                                              *)
(***************************************************************************)
Returned(i) == inv[i].pc = "done"
Env(i) == inv[i].ret.env
IsFail(r) ==
    /\ r.tag = "Ok"
    /\ r.env.success = FALSE
    /\ ~IsSome(r.env.data)
    /\ IsSome(r.env.error)

\* C1: every envelope a proxy command returns has data and no error when
\* success is true, and an error and no data when success is false.
C1_EnvelopeInvariant ==
    \A i \in Invs :
        Returned(i) /\ inv[i].ret.tag = "Ok" =>
            /\ Env(i).success => IsSome(Env(i).data) /\ ~IsSome(Env(i).error)
            /\ ~Env(i).success => ~IsSome(Env(i).data) /\ IsSome(Env(i).error)

C1_Witness ==
    \E i, j \in Invs :
        /\ Returned(i) /\ inv[i].ret.tag = "Ok" /\ Env(i).success
        /\ Returned(j) /\ inv[j].ret.tag = "Ok" /\ ~Env(j).success

\* C2: when send() fails at the transport level the command returns a
\* failed envelope with no data and the non-empty text of the transport error.
C2_TransportFailure ==
    \A i \in Invs :
        Returned(i) /\ inv[i].resp.kind = "err" =>
            /\ IsFail(inv[i].ret)
            /\ Env(i).error.v = to_string(inv[i].resp.e)
            /\ Len(Env(i).error.v) > 0

C2_Witness ==
    \E i \in Invs :
        /\ Returned(i)
        /\ inv[i].resp.kind = "err"
        /\ inv[i].cmd = "send_chat_message"

\* C3: when the exchange completes but the body does not decode into the
\* command's type (a chat response without citations, for one), the command
\* returns a failed envelope with no data, never success with partial data.
C3_DecodeFailure ==
    \A i \in Invs :
        Returned(i) /\ inv[i].body.kind = "ok" =>
            /\ ~json(inv[i].cmd, inv[i].body.json).ok => IsFail(inv[i].ret)
            /\ inv[i].cmd = "send_chat_message"
                  /\ inv[i].body.json = ChatNoCitations => IsFail(inv[i].ret)
            /\ inv[i].body.json = JBad => IsFail(inv[i].ret)

C3_Witness ==
    \E i \in Invs :
        /\ Returned(i)
        /\ inv[i].cmd = "send_chat_message"
        /\ inv[i].body.kind = "ok"
        /\ inv[i].body.json = ChatNoCitations

\* the backend's array, for a body that is an array of objects
Items(i) == inv[i].body.json.a
KeyOf(cmd) == IF cmd = "search_literature" THEN "title" ELSE "id"

\* C4: when the body decodes, the envelope is success with no error and the
\* decoded body as data; a sequence result has the length and the order of
\* the backend's array, and an empty array gives success with an empty
\* sequence.
C4_DecodeSuccess ==
    \A i \in Invs :
        Returned(i) /\ inv[i].body.kind = "ok"
                    /\ json(inv[i].cmd, inv[i].body.json).ok =>
            /\ inv[i].ret.tag = "Ok"
            /\ Env(i).success
            /\ ~IsSome(Env(i).error)
            /\ IsSome(Env(i).data)
            /\ Env(i).data.v = json(inv[i].cmd, inv[i].body.json).v
            /\ inv[i].cmd \in {"search_literature", "get_voe_alerts"} =>
                  /\ Len(Env(i).data.v) = Len(Items(i))
                  /\ \A k \in 1..Len(Items(i)) :
                        Env(i).data.v[k][KeyOf(inv[i].cmd)]
                            = Items(i)[k].o[KeyOf(inv[i].cmd)].s
                  /\ Items(i) = <<>> => Env(i).data.v = <<>>

C4_Witness ==
    \E i, j \in Invs :
        /\ Returned(i) /\ inv[i].cmd = "search_literature"
        /\ inv[i].body.kind = "ok" /\ inv[i].body.json = JArr(<<LitB, LitA>>)
        /\ Env(i).success
        /\ Returned(j) /\ inv[j].cmd = "get_voe_alerts"
        /\ inv[j].body.kind = "ok" /\ inv[j].body.json = JArr(<<>>)
        /\ Env(j).success

\* C5: a proxy command always returns the Ok branch of its Result, with an
\* envelope in it, whatever the transport and the decoding did.
C5_NeverErr ==
    \A i \in Invs :
        Returned(i) =>
            /\ inv[i].ret.tag = "Ok"
            /\ Env(i).success \in BOOLEAN

C5_Witness ==
    \E i, j \in Invs :
        /\ Returned(i) /\ inv[i].resp.kind = "err"
        /\ Returned(j) /\ inv[j].body.kind = "err"

\* C6: an invocation calls send() exactly once: once it has started, and
\* still when it has returned after a transport or decode failure, it has
\* issued one request, and it never returns without having issued it.
C6_OneRequest ==
    \A i \in Invs :
        /\ inv[i].pc = "idle" => inv[i].sent = 0
        /\ inv[i].pc \in {"send", "json", "done"} => inv[i].sent = 1

C6_Witness ==
    \E i, j \in Invs :
        /\ Returned(i) /\ inv[i].resp.kind = "err" /\ inv[i].sent = 1
        /\ Returned(j) /\ inv[j].body.kind = "ok"
        /\ ~json(inv[j].cmd, inv[j].body.json).ok /\ inv[j].sent = 1

(***************************************************************************)
(* The runtime resumes the observed invocation whenever its future         *)
(* resolves, and the observed invocation's transport does resolve.  About  *)
(* every other invocation nothing is assumed: its transport call may never *)
(* resolve.                                                                *)
(***************************************************************************)
Observed == NumInv

FairSpec == Spec /\ WF_vars(Resolve(Observed))

\* C7: invocations are independent: a step of one invocation leaves every
\* other invocation's state as it was, and an invocation suspended on its
\* transport call completes even if the other invocations' calls never
\* resolve.
C7_Independent ==
    /\ [][\A i \in Invs :
             inv'[i].pc # inv[i].pc =>
                 \A j \in Invs \ {i} : inv'[j] = inv[j]]_vars
    /\ (inv[Observed].pc \in {"send", "json"}) ~> (inv[Observed].pc = "done")

C7_Witness ==
    /\ \A j \in Invs \ {Observed} : inv[j].pc = "send"
    /\ Returned(Observed)
    /\ inv[Observed].ret.tag = "Ok"

Base == "http://localhost:3001"
SearchPrefix == Base \o "/api/literature/search?q="
FetchPrefix == Base \o "/api/"

\* C8: the url is built by plain interpolation: search_literature asks, by
\* GET, for /api/literature/search?q={query}&limit={limit} and
\* fetch_api_data for /api/{endpoint}, on the fixed base address, with the
\* caller's text in it character for character.
C8_VerbatimUrl ==
    \A i \in Invs :
        /\ inv[i].pc = "send" /\ inv[i].cmd = "search_literature" =>
              LET q == inv[i].args.query
                  u == inv[i].req.url IN
              /\ inv[i].req.method = "GET"
              /\ SubSeq(u, 1, Len(SearchPrefix)) = SearchPrefix
              /\ SubSeq(u, Len(SearchPrefix) + 1, Len(SearchPrefix) + Len(q)) = q
              /\ u = SearchPrefix \o q \o "&limit=" \o ToDecimal(inv[i].args.limit)
              /\ q = "sickle cell" /\ inv[i].args.limit = 10 =>
                    u = "http://localhost:3001/api/literature/search?q=sickle cell&limit=10"
        /\ inv[i].pc = "send" /\ inv[i].cmd = "fetch_api_data" =>
              /\ inv[i].req.method = "GET"
              /\ inv[i].req.url = FetchPrefix \o inv[i].args.endpoint
              /\ Len(inv[i].req.url) = Len(FetchPrefix) + Len(inv[i].args.endpoint)

C8_Witness ==
    \E i, j \in Invs :
        /\ inv[i].pc = "send" /\ inv[i].cmd = "search_literature"
        /\ inv[i].args.query = "sickle cell" /\ inv[i].args.limit = 10
        /\ inv[j].pc = "send" /\ inv[j].cmd = "fetch_api_data"
        /\ inv[j].args.endpoint = "voe/../chat?x=1 2#top"

\* C9 as stated: a failed native window call reaches the caller as an
\* envelope with success false and the platform error's text as error.
C9_WindowFailureIsEnvelope ==
    winRet.outcome \in PlatformErrors =>
        /\ winRet.ret.tag = "Ok"
        /\ "env" \in DOMAIN winRet.ret
        /\ winRet.ret.env.success = FALSE
        /\ winRet.ret.env.error = Some(platform_to_string(winRet.outcome))

\* C9 amended: a failed native window call makes the window command return
\* Err with the platform error's text (the Err branch of Result<(), String>,
\* no envelope), and a successful one makes it return Ok(()).
C9_WindowFailureIsErr ==
    /\ winRet.outcome \in PlatformErrors =>
          /\ winRet.ret = Err(platform_to_string(winRet.outcome))
          /\ Len(winRet.ret.msg) > 0
    /\ winRet.outcome = "ok" => winRet.ret = OkUnit

C9_Witness ==
    /\ winRet.cmd = "maximize_window"
    /\ winRet.outcome \in PlatformErrors
    /\ win.fullscreen

\* C10: the status code does not decide the outcome: once send() has
\* completed, success is exactly "the body decodes", so a 500 whose body
\* decodes is a success with that body as data, and fetch_api_data
\* succeeds on every body that is JSON.
C10_StatusIgnored ==
    \A i \in Invs :
        Returned(i) /\ inv[i].resp.kind = "ok" /\ inv[i].body.kind = "ok" =>
            /\ inv[i].ret.tag = "Ok"
            /\ Env(i).success = json(inv[i].cmd, inv[i].body.json).ok
            /\ Env(i).success =>
                  Env(i).data = Some(json(inv[i].cmd, inv[i].body.json).v)
            /\ inv[i].cmd = "fetch_api_data" /\ inv[i].body.json # JBad =>
                  Env(i).success /\ Env(i).data = Some(inv[i].body.json)

C10_Witness ==
    \E i, j \in Invs :
        /\ Returned(i) /\ inv[i].cmd = "fetch_api_data"
        /\ inv[i].resp.kind = "ok" /\ inv[i].resp.status = 500
        /\ inv[i].body.kind = "ok" /\ Env(i).success
        /\ Returned(j) /\ inv[j].cmd = "get_voe_alerts"
        /\ inv[j].resp.kind = "ok" /\ inv[j].resp.status = 500
        /\ inv[j].body.kind = "ok" /\ Env(j).success

====
